---- MODULE Spec2Model ----
(***************************************************************************)
(* Model of the content-to-summary pipeline of BookmarkManager:            *)
(*   - AIService (backend/src/ai/AIService.ts): the in-memory job queue,   *)
(*     the worker loop, processJob and the retry timer;                    *)
(*   - ProgressiveWebScraperService: the tiered content extraction;        *)
(*   - the summarization providers (ClaudeProvider, OpenAIProvider,        *)
(*     BaseAIProvider).                                                    *)
(* Strings are sequences of one-character strings.  A page text is         *)
(* represented by its character count, which is all the code inspects.     *)
(* A quality score is an integer number of tenths (0..10).                 *)
(***************************************************************************)
EXTENDS Integers, Sequences, FiniteSets, TLC

\* ------------------------------------------------------------------------
\* Bounds of the model
\* ------------------------------------------------------------------------
MaxJobs == 2
\* the clock advances in steps of ClockStep milliseconds, up to MaxClock
MaxClock == 450000
ClockStep == 150000

\* ------------------------------------------------------------------------
\* Program constants
\* ------------------------------------------------------------------------
MaxAttempts == 3
DefaultPriority == 1
minContentLength == 200
textContentCap == 5000
NumReaderVariants == 8
TenthsOne == 10
retryDelay == 5000
interRequestDelay == 1000

ProviderNames == {"claude", "openai"}
priorities == <<"claude", "openai">>
BookmarkIds == {"b1"}

\* ------------------------------------------------------------------------
\* Strings
\* ------------------------------------------------------------------------
\* String.prototype.split('/')
RECURSIVE SplitSlash(_, _)
SplitSlash(s, cur) ==
    IF s = <<>> THEN <<cur>>
    ELSE IF Head(s) = "/" THEN <<cur>> \o SplitSlash(Tail(s), <<>>)
    ELSE SplitSlash(Tail(s), Append(cur, Head(s)))

\* part.replace(/[-_]/g, ' ')
DashToSpace(s) == [i \in 1..Len(s) |-> IF s[i] \in {"-", "_"} THEN " " ELSE s[i]]

\* Array.prototype.join(' ')
RECURSIVE JoinSpace(_)
JoinSpace(parts) ==
    IF parts = <<>> THEN <<>>
    ELSE IF Len(parts) = 1 THEN parts[1]
    ELSE parts[1] \o <<" ">> \o JoinSpace(Tail(parts))

\* hostname.replace(/^www\./, '')
StripWww(h) ==
    IF Len(h) >= 4 /\ SubSeq(h, 1, 4) = <<"w", "w", "w", ".">>
    THEN SubSeq(h, 5, Len(h)) ELSE h

\* ------------------------------------------------------------------------
\* URLs: what `new URL(url)` yields.  parses = FALSE: the constructor throws.
\* ------------------------------------------------------------------------
\* fetchable = FALSE: the scheme is not one axios can request (file:, about:),
\* so every request for it throws.  rawLen is the length of the URL string.
Url(parses, fetchable, hostname, pathname, rawLen) ==
    [parses |-> parses, fetchable |-> fetchable, hostname |-> hostname,
     pathname |-> pathname, rawLen |-> rawLen]

\* https://www.a.c/x-y/z   https://a.c/   file:///   http://www./   about:/-   ""
UrlArticle  == Url(TRUE, TRUE, <<"w", "w", "w", ".", "a", ".", "c">>, <<"/", "x", "-", "y", "/", "z">>, 23)
UrlRoot     == Url(TRUE, TRUE, <<"a", ".", "c">>, <<"/">>, 12)
UrlFile     == Url(TRUE, FALSE, <<>>, <<"/">>, 8)
UrlWwwDot   == Url(TRUE, TRUE, <<"w", "w", "w", ".">>, <<"/">>, 12)
UrlDashPath == Url(TRUE, FALSE, <<>>, <<"/", "-">>, 8)
UrlGarbage  == Url(FALSE, FALSE, <<>>, <<>>, 0)

Urls == {UrlArticle, UrlRoot, UrlFile, UrlWwwDot, UrlDashPath, UrlGarbage}

\* The URL stored with each bookmark by upload ingestion.
BookmarkUrl(b) == UrlRoot

\* ------------------------------------------------------------------------
\* Extraction results (WebPageContent).  site names the return statement
\* that produced the result; the program stores no such field.  The optional
\* member extractionMethod is set by none of the object literals the scraper
\* returns (<<>>: undefined).
\* ------------------------------------------------------------------------
Content(title, textLen, marks, site) ==
    [title |-> title, textLen |-> textLen, marks |-> marks, site |-> site,
     extractionMethod |-> <<>>]
NoContent == Content(<<>>, 0, {}, "none")

ContentFromPrefix == <<"C", "o", "n", "t", "e", "n", "t", " ", "f", "r", "o", "m", " ">>
UnknownWebsite == <<"U", "n", "k", "n", "o", "w", "n", " ", "W", "e", "b", "s", "i", "t", "e">>
Untitled == <<"U", "n", "t", "i", "t", "l", "e", "d">>
NoContentExtractedLen == 20
WebsitePrefixLen == 9

urlOnlyAnalysis(url) ==
    IF url.parses
    THEN LET domain == StripWww(url.hostname)
             pathParts == JoinSpace(
                 [i \in 1..Len(SelectSeq(SplitSlash(url.pathname, <<>>), LAMBDA p : Len(p) > 0))
                     |-> DashToSpace(SelectSeq(SplitSlash(url.pathname, <<>>), LAMBDA p : Len(p) > 0)[i])])
             urlTitle == IF pathParts # <<>> THEN pathParts ELSE domain
             urlDescription == ContentFromPrefix \o domain \o
                 (IF pathParts # <<>> THEN <<":", " ">> \o pathParts ELSE <<>>)
         IN Content(urlTitle, Len(urlDescription), {}, "url-only")
    ELSE Content(UnknownWebsite, WebsitePrefixLen + url.rawLen, {}, "url-only")

\* ------------------------------------------------------------------------
\* Pages: the parts of a fetched document that extractContentFromHtml reads
\* (already trimmed); mainLen and bodyLen are the text lengths under the
\* 'main' and 'body' selectors after the non-content elements were removed.
\* ------------------------------------------------------------------------
Page(title, ogTitle, h1, mainLen, bodyLen, marks) ==
    [title |-> title, ogTitle |-> ogTitle, h1 |-> h1, mainLen |-> mainLen, bodyLen |-> bodyLen,
     marks |-> marks]

T == <<"T">>
Pages == {
    Page(T, <<>>, <<>>, 0, 6000, {}),
    Page(<<>>, T, <<>>, 201, 150, {"blocked"}),
    Page(<<>>, <<>>, T, 0, 200, {}),
    Page(<<>>, <<>>, <<>>, 300, 300, {}),
    Page(<<>>, <<>>, <<>>, 0, 0, {}),
    Page(T, <<>>, <<>>, 0, 0, {}) }

\* The documents the server of a URL may answer with.
PagesAt(url) ==
    IF url = UrlRoot THEN {Page(T, <<>>, <<>>, 0, 6000, {})}
    ELSE Pages

\* a maximum that does not clamp
MaxUnclamped(a, b) == b
Max(a, b) == IF a >= b THEN a ELSE b
Min(a, b) == IF a <= b THEN a ELSE b

extractContentFromHtml(p) ==
    LET title == IF p.title # <<>> THEN p.title
                 ELSE IF p.ogTitle # <<>> THEN p.ogTitle
                 ELSE p.h1
        longest == IF p.bodyLen > p.mainLen THEN p.bodyLen ELSE p.mainLen
    IN [title |-> title, textLen |-> Min(longest, textContentCap),
        marks |-> IF longest = 0 THEN {} ELSE p.marks]

\* The acceptance test of tryReaderMode and tryMobileVersion.
Meaningful(c) == c.title # <<>> /\ c.textLen > minContentLength

\* The result built by extractFromDiskFile from the parsed document.
DiskResult(p) ==
    LET c == extractContentFromHtml(p)
    IN Content(IF c.title # <<>> THEN c.title ELSE Untitled,
               IF c.textLen # 0 THEN c.textLen ELSE NoContentExtractedLen,
               c.marks, "disk-streamed")

\* ------------------------------------------------------------------------
\* Optional values: <<>> is null / undefined, <<v>> a present value.
\* ------------------------------------------------------------------------
Null == <<>>
Some(v) == <<v>>

\* JavaScript `x || null` for a number: 0 is falsy.
NumberOrNull(x) == IF x = Null \/ x = Some(0) THEN Null ELSE x

\* JavaScript `x || null` for a text: the empty string is falsy.
TextOrNull(t) == IF t.len = 0 THEN Null ELSE Some(t)

\* ------------------------------------------------------------------------
\* Texts produced by a backend: the length and the pattern groups of
\* assessResponseQuality that the text matches.
\* ------------------------------------------------------------------------
Text(len, marks) == [len |-> len, marks |-> marks]
EmptyText == Text(0, {})
AISummaryNotAvailable == Text(24, {"generic"})
DetailedSummaryNotAvailable == Text(30, {"generic"})
NoSummaryAvailable == Text(20, {})
NoDetailedSummaryAvailable == Text(29, {})
Uncategorized == Text(13, {})
ErrorProcessingContent == Text(24, {})
FailedToGenerate == Text(40, {})

\* The pattern lists of assessResponseQuality.  A text is matched as its
\* lower-cased words; a pattern /a b.*c/ is the chunks <<a, b>>, <<c>>, each
\* to be found as consecutive words, in this order, anything in between.
errorPatterns == <<
    << <<"i", "apologize">>, <<"cannot">>, <<"generate">> >>,
    << <<"sorry">>, <<"unable", "to">> >>,
    << <<"i", "cannot">>, <<"provide">> >>,
    << <<"incomplete">>, <<"content">>, <<"provided">> >>,
    << <<"would", "need">>, <<"complete">>, <<"content">> >>,
    << <<"please">>, <<"share">>, <<"complete">> >>,
    << <<"without">>, <<"actual">>, <<"content">> >>,
    << <<"only", "contains">>, <<"elements">> >> >>
genericPatterns == <<
    << <<"summary", "not", "available">> >>,
    << <<"detailed", "summary", "not", "available">> >>,
    << <<"unable", "to", "determine">> >>,
    << <<"not", "enough", "information">> >>,
    << <<"generic">>, <<"description">> >> >>
insufficientPatterns == <<
    << <<"google", "tag", "manager">> >>,
    << <<"iframe">>, <<"elements">> >>,
    << <<"javascript">>, <<"required">> >>,
    << <<"cookies">>, <<"policy">> >>,
    << <<"accept">>, <<"cookies">> >>,
    << <<"loading">>, <<"please">>, <<"wait">> >> >>
blockedPatterns == <<
    << <<"access">>, <<"denied">> >>,
    << <<"permission">>, <<"required">> >>,
    << <<"sign">>, <<"in">>, <<"required">> >>,
    << <<"subscription">>, <<"required">> >>,
    << <<"paywall">> >>,
    << <<"403">>, <<"forbidden">> >>,
    << <<"404">>, <<"not">>, <<"found">> >> >>

OccursAt(words, chunk, k) ==
    /\ k + Len(chunk) - 1 <= Len(words)
    /\ \A n \in 1..Len(chunk) : words[k + n - 1] = chunk[n]

\* the first position at or after from where chunk occurs, 0 if none
FirstAt(words, chunk, from) ==
    IF \E k \in from..Len(words) : OccursAt(words, chunk, k)
    THEN CHOOSE k \in from..Len(words) :
             /\ OccursAt(words, chunk, k)
             /\ \A k2 \in from..(k - 1) : ~OccursAt(words, chunk, k2)
    ELSE 0

RECURSIVE MatchesFrom(_, _, _)
MatchesFrom(words, pattern, from) ==
    IF pattern = <<>> THEN TRUE
    ELSE LET k == FirstAt(words, Head(pattern), from)
         IN k # 0 /\ MatchesFrom(words, Tail(pattern), k + Len(Head(pattern)))

\* RegExp.prototype.test for some pattern of the list
TestAny(patterns, words) == \E n \in 1..Len(patterns) : MatchesFrom(words, patterns[n], 1)

MarksOf(words) ==
    (IF TestAny(errorPatterns, words) THEN {"refusal"} ELSE {})
    \cup (IF TestAny(genericPatterns, words) THEN {"generic"} ELSE {})
    \cup (IF TestAny(insufficientPatterns, words) THEN {"insufficient"} ELSE {})
    \cup (IF TestAny(blockedPatterns, words) THEN {"blocked"} ELSE {})

\* a text given by its words and its length in characters
Phrase(words, len) == Text(len, MarksOf(words))

\* "I apologize, I cannot analyze this content"
IApologizeICannotAnalyze ==
    Phrase(<<"i", "apologize", ",", "i", "cannot", "analyze", "this", "content">>, 42)
\* "Sorry, I am unable to summarize this page without its actual content."
SorryUnableToSummarize ==
    Phrase(<<"sorry", ",", "i", "am", "unable", "to", "summarize", "this", "page", "without",
             "its", "actual", "content", ".">>, 69)

\* Backend replies: the fetch throws or the status is not OK (kind is the
\* error), or a body whose text is JSON (with the four members) or is not.
Reply(kind, json, short, long, tags, category) ==
    [kind |-> kind, json |-> json, short |-> short, long |-> long,
     tags |-> tags, category |-> category]

ReplyNetworkError == Reply("network_error", FALSE, EmptyText, EmptyText, <<>>, EmptyText)
ReplyHttpError    == Reply("http_error", FALSE, EmptyText, EmptyText, <<>>, EmptyText)
ReplyGood         == Reply("ok", TRUE, Text(60, {}), Text(400, {}), <<"t1", "t2">>, Text(4, {}))
ReplyRefusal      == Reply("ok", TRUE, Text(12, {}), Text(90, {"refusal"}), <<>>, EmptyText)

Replies == {ReplyNetworkError, ReplyHttpError, ReplyGood, ReplyRefusal}

\* String.prototype.substring(0, n)
Substring(t, n) == Text(Min(t.len, n), t.marks)

Or(t, fallback) == IF t.len = 0 THEN fallback ELSE t

\* For a non-JSON body, short is its first non-blank line and long the body.
parseAIResponse(r) ==
    IF r.json
    THEN [shortSummary |-> Or(r.short, AISummaryNotAvailable),
          longSummary  |-> Or(r.long, DetailedSummaryNotAvailable),
          tags         |-> r.tags,
          category     |-> Or(r.category, Uncategorized)]
    ELSE [shortSummary |-> Or(Substring(r.short, 150), AISummaryNotAvailable),
          longSummary  |-> Or(Substring(r.long, 1000), DetailedSummaryNotAvailable),
          tags         |-> <<>>,
          category     |-> Uncategorized]

SummaryResult(short, long, tags, category, provider, confidence, error, score, issues) ==
    [shortSummary |-> short, longSummary |-> long, tags |-> tags, category |-> category,
     provider |-> provider, confidence |-> confidence, error |-> error,
     qualityScore |-> score, qualityIssues |-> issues]

NoSummary == SummaryResult(EmptyText, EmptyText, <<>>, EmptyText, "none", 0, Null, Null, Null)

\* an error result that leaves the error member unset
createErrorResultUnset(name, error) ==
    SummaryResult(ErrorProcessingContent, FailedToGenerate, Null, Null, name, 0,
                  Null, Some(0), Some(<<"Processing failed">>))

createErrorResult(name, error) ==
    SummaryResult(ErrorProcessingContent, FailedToGenerate, Null, Null, name, 0,
                  Some(error), Some(0), Some(<<"Processing failed">>))

\* The checks of assessResponseQuality in source order: the issue type and
\* the penalty (in tenths) of each check that triggers.
QualityChecks(result, contentMarks) ==
    LET combined == result.shortSummary.marks \cup result.longSummary.marks
    IN << <<"error_acknowledgment", 8, "refusal" \in combined>>,
          <<"generic_response", 4, "generic" \in combined>>,
          <<"insufficient_content", 6, "insufficient" \in (combined \cup contentMarks)>>,
          <<"incomplete_analysis", 2, result.shortSummary.len > 0 /\ result.shortSummary.len < 20>>,
          <<"incomplete_analysis", 2, result.longSummary.len > 0 /\ result.longSummary.len < 50>>,
          <<"low_confidence", 3, result.confidence < 5>>,
          <<"content_blocked", 7, "blocked" \in (combined \cup contentMarks)>> >>

RECURSIVE SumPenalties(_)
SumPenalties(checks) ==
    IF checks = <<>> THEN 0
    ELSE (IF Head(checks)[3] THEN Head(checks)[2] ELSE 0) + SumPenalties(Tail(checks))

\* a rule chain whose first comparison is not strict
suggestedActionInclusive(qualityScore, issues) ==
    LET has(ty) == \E i \in 1..Len(issues) : issues[i] = ty
    IN IF qualityScore <= 3 THEN "mark_as_failed"
       ELSE IF has("error_acknowledgment") \/ has("content_blocked") THEN "retry_different_scraping"
       ELSE IF has("insufficient_content") THEN "retry_different_scraping"
       ELSE IF qualityScore < 6 THEN "use_metadata_only"
       ELSE "accept"

\* the if / else-if chain that sets suggestedAction (scores in tenths)
suggestedAction(qualityScore, issues) ==
    LET has(ty) == \E i \in 1..Len(issues) : issues[i] = ty
    IN IF qualityScore < 3 THEN "mark_as_failed"
       ELSE IF has("error_acknowledgment") \/ has("content_blocked") THEN "retry_different_scraping"
       ELSE IF has("insufficient_content") THEN "retry_different_scraping"
       ELSE IF qualityScore < 6 THEN "use_metadata_only"
       ELSE "accept"

assessResponseQuality(result, contentMarks) ==
    LET checks == QualityChecks(result, contentMarks)
        triggered == SelectSeq(checks, LAMBDA c : c[3])
        issues == [i \in 1..Len(triggered) |-> triggered[i][1]]
        qualityScore == Max(0, TenthsOne - SumPenalties(checks))
    IN [isHighQuality |-> qualityScore >= 7 /\ Len(issues) = 0,
        qualityScore |-> qualityScore,
        issues |-> issues,
        suggestedAction |-> suggestedAction(qualityScore, issues),
        confidence |-> qualityScore]

NoAssessment ==
    [isHighQuality |-> FALSE, qualityScore |-> 0, issues |-> <<>>, suggestedAction |-> "none",
     confidence |-> 0]

ApiKeyNotConfigured == "API key not configured"

\* ClaudeProvider.summarize; isConfigured: the provider has an API key.
ClaudeSummarize(isConfigured, reply, contentMarks) ==
    IF ~isConfigured THEN createErrorResult("claude", ApiKeyNotConfigured)
    ELSE IF reply.kind # "ok" THEN createErrorResult("claude", reply.kind)
    ELSE LET parsed == parseAIResponse(reply)
             result == SummaryResult(Or(parsed.shortSummary, NoSummaryAvailable),
                                     Or(parsed.longSummary, NoDetailedSummaryAvailable),
                                     Some(parsed.tags), Some(Or(parsed.category, Uncategorized)),
                                     "claude", 8, Null, Null, Null)
             qa == assessResponseQuality(result, contentMarks)
         IN [result EXCEPT !.qualityScore = Some(qa.qualityScore),
                           !.qualityIssues = Some(qa.issues),
                           !.confidence = Min(result.confidence, qa.confidence)]

\* OpenAIProvider.summarize; isConfigured: the provider has an API key.
OpenAISummarize(isConfigured, reply, contentMarks) ==
    IF ~isConfigured THEN createErrorResult("openai", ApiKeyNotConfigured)
    ELSE IF reply.kind # "ok" THEN createErrorResult("openai", reply.kind)
    ELSE LET parsed == parseAIResponse(reply)
         IN SummaryResult(Or(parsed.shortSummary, NoSummaryAvailable),
                          Or(parsed.longSummary, NoDetailedSummaryAvailable),
                          Some(parsed.tags), Some(Or(parsed.category, Uncategorized)),
                          "openai", 8, Null, Null, Null)

summarize(name, isConfigured, reply, contentMarks) ==
    IF name = "claude" THEN ClaudeSummarize(isConfigured, reply, contentMarks)
    ELSE OpenAISummarize(isConfigured, reply, contentMarks)

\* ------------------------------------------------------------------------
\* ModelCache (backend/src/utils/modelCache.ts) and the model-list route
\* ------------------------------------------------------------------------
CACHE_DURATION == 300000

\* API keys: "sk-ant-api03-A", "sk-ant-api03-B", "sk-proj-0A" and a request
\* body without a key
KeyA == <<"s", "k", "-", "a", "n", "t", "-", "a", "p", "i", "0", "3", "-", "A">>
KeyB == <<"s", "k", "-", "a", "n", "t", "-", "a", "p", "i", "0", "3", "-", "B">>
KeyC == <<"s", "k", "-", "p", "r", "o", "j", "-", "0", "A">>
NoKey == <<>>
ApiKeys == {KeyA, KeyB, KeyC}

\* the character codes of the characters the keys are made of
CharCode(c) ==
    CASE c = "s" -> 115 [] c = "k" -> 107 [] c = "-" -> 45 [] c = "a" -> 97
      [] c = "n" -> 110 [] c = "t" -> 116 [] c = "p" -> 112 [] c = "i" -> 105
      [] c = "0" -> 48 [] c = "3" -> 51 [] c = "A" -> 65 [] c = "B" -> 66
      [] c = "r" -> 114 [] c = "o" -> 111 [] c = "j" -> 106

\* Buffer.from(string): the UTF-8 bytes, one per ASCII character
BufferFrom(str) == [i \in 1..Len(str) |-> CharCode(str[i])]

\* Buffer.toString('base64'): each digit as its index in the base64
\* alphabet, the padding character '=' as Base64Pad
Base64Pad == 64
RECURSIVE ToBase64(_)
ToBase64(bytes) ==
    IF bytes = <<>> THEN <<>>
    ELSE IF Len(bytes) = 1
         THEN <<bytes[1] \div 4, (bytes[1] % 4) * 16, Base64Pad, Base64Pad>>
    ELSE IF Len(bytes) = 2
         THEN <<bytes[1] \div 4, (bytes[1] % 4) * 16 + bytes[2] \div 16,
                (bytes[2] % 16) * 4, Base64Pad>>
    ELSE <<bytes[1] \div 4, (bytes[1] % 4) * 16 + bytes[2] \div 16,
           (bytes[2] % 16) * 4 + bytes[3] \div 64, bytes[3] % 64>>
         \o ToBase64(SubSeq(bytes, 4, Len(bytes)))

\* String.prototype.slice(0, n)
Slice(str, n) == SubSeq(str, 1, Min(Len(str), n))

hashApiKey(apiKey) == Slice(ToBase64(BufferFrom(apiKey)), 16)

\* the template string `${provider}:${apiKeyHash}`; no provider name of the
\* model contains ':' and no base64 digit is ':'
getCacheKey(provider, apiKeyHash) == <<provider, apiKeyHash>>

\* A result of fetchAvailableModels
ModelsResult(models, error) == [models |-> models, error |-> error]

\* A CacheEntry.  present = FALSE: the Map has no entry under the key.
\* storedFor is the (provider, apiKey) of the set call that stored the
\* entry; the program keeps no such member.
CacheEntry(result, timestamp, storedFor) ==
    [present |-> TRUE, models |-> result.models, timestamp |-> timestamp,
     error |-> result.error, storedFor |-> storedFor]
NoEntry ==
    [present |-> FALSE, models |-> <<>>, timestamp |-> 0, error |-> Null,
     storedFor |-> <<"", NoKey>>]

\* the keys the Map can hold
CacheKeys == {getCacheKey(provider, hashApiKey(apiKey)) : provider \in ProviderNames, apiKey \in ApiKeys}

\* the keys that the provider's API accepts
ValidKeys == {KeyA, KeyC}

\* ClaudeProvider.fetchAvailableModels / OpenAIProvider.fetchAvailableModels
fetchAvailableModels(provider, apiKey) ==
    IF apiKey \in ValidKeys THEN ModelsResult(<<provider>>, Null)
    ELSE ModelsResult(<<>>, Some("API error: 401"))

\* ModelCache.get: the entry returned (NoEntry: null) and the Map afterwards
\* (an expired entry is deleted)
CacheGet(cache, now, provider, apiKey) ==
    LET key == getCacheKey(provider, hashApiKey(apiKey))
        entry == IF key \in DOMAIN cache THEN cache[key] ELSE NoEntry
    IN IF ~entry.present THEN [entry |-> NoEntry, cache |-> cache]
       ELSE IF now - entry.timestamp > CACHE_DURATION
            THEN [entry |-> NoEntry, cache |-> [cache EXCEPT ![key] = NoEntry]]
       ELSE [entry |-> entry, cache |-> cache]

\* ModelCache.cleanup
CacheCleanup(cache, now) ==
    [k \in DOMAIN cache |->
        IF cache[k].present /\ now - cache[k].timestamp > CACHE_DURATION THEN NoEntry ELSE cache[k]]

\* ModelCache.set: the Map afterwards
CacheSet(cache, now, provider, apiKey, result) ==
    LET key == getCacheKey(provider, hashApiKey(apiKey))
        stored == [cache EXCEPT ![key] = CacheEntry(result, now, <<provider, apiKey>>)]
    IN IF Cardinality({k \in DOMAIN stored : stored[k].present}) > 100
       THEN CacheCleanup(stored, now)
       ELSE stored

\* ------------------------------------------------------------------------
\* State
\* ------------------------------------------------------------------------
VARIABLES
    providers,          \* AIService.providers: names of the registered providers
    jobs,               \* the in-memory AIProcessingJob objects, by job id
    dbJobs,             \* the ai_jobs rows, by job id
    bookmarks,          \* the bookmarks rows, by bookmark id
    processingQueue,    \* AIService.processingQueue: job ids
    isProcessing,       \* AIService.isProcessing
    loops,              \* the active processQueue invocations
    timers,             \* pending retry setTimeout callbacks, per job id
    tempFiles,          \* temporary files of diskBasedExtraction, by URL
    runs,               \* history: processJob invocations so far, per job id
    lastCall,           \* history: the call that returned in the last step, if one did
    modelCache,         \* ModelCache.cache: the entries, by cache key
    clock               \* Date.now(), in milliseconds since the start

vars == <<providers, jobs, dbJobs, bookmarks, processingQueue, isProcessing, loops,
          timers, tempFiles, runs, lastCall, modelCache, clock>>

\* A call of a method: its name, its arguments and what it returned or
\* threw; the members a method does not have keep the values of NoCall.
NoCall ==
    [op |-> "none", bookmarkId |-> "", provider |-> "", isValid |-> FALSE,
     reply |-> Reply("none", FALSE, EmptyText, EmptyText, <<>>, EmptyText),
     jobId |-> 0, error |-> "", returned |-> FALSE, summary |-> NoSummary,
     contentMarks |-> {}, assessment |-> NoAssessment,
     apiKey |-> NoKey, entry |-> NoEntry]
\* processBookmark(bookmarkId, providerName) returned jobId
Submitted(b, providerName, jobId) ==
    [NoCall EXCEPT !.op = "processBookmark", !.bookmarkId = b, !.provider = providerName,
                   !.jobId = jobId]
\* processBookmark(bookmarkId, providerName) threw Error(message)
SubmitThrew(b, providerName, message) ==
    [NoCall EXCEPT !.op = "processBookmark", !.bookmarkId = b, !.provider = providerName,
                   !.error = message]
\* configureProvider(config) returned; isValid is what validateConfig answered
Configured(provider, isValid, returned) ==
    [NoCall EXCEPT !.op = "configureProvider", !.provider = provider, !.isValid = isValid,
                   !.returned = returned]
\* assessResponseQuality(result, originalContent, url) is called
Assessing(result, contentMarks) ==
    [NoCall EXCEPT !.op = "assess", !.summary = result, !.contentMarks = contentMarks]
\* POST /models/:provider answered; entry is what modelCache.get returned
ModelsRequested(provider, apiKey, entry) ==
    [NoCall EXCEPT !.op = "models", !.provider = provider, !.apiKey = apiKey, !.entry = entry]
\* provider.summarize returned summary after the backend replied
Summarized(provider, reply, summary) ==
    [NoCall EXCEPT !.op = "summarize", !.provider = provider, !.reply = reply,
                   !.summary = summary]

Job(bookmarkId, provider) ==
    [bookmarkId |-> bookmarkId, provider |-> provider, status |-> "pending",
     priority |-> DefaultPriority, attempts |-> 0, maxAttempts |-> MaxAttempts]

JobRow(provider) == [status |-> "pending", provider |-> provider, attempts |-> 0, error |-> Null]

InitialBookmark ==
    [status |-> "pending", ai_summary |-> Null, ai_long_summary |-> Null, ai_tags |-> Null,
     ai_category |-> Null, ai_provider |-> Null, ai_quality_score |-> Null,
     ai_quality_issues |-> Null, extracted_content |-> Null, extraction_method |-> Null]

\* One processQueue invocation: where it awaits and the locals of the
\* processJob and scrapeContent calls it is in.
Loop(pc, job, url) ==
    [pc |-> pc, job |-> job, url |-> url, variant |-> 0, content |-> NoContent,
     summary |-> NoSummary, err |-> Null]

Init ==
    /\ providers \in SUBSET ProviderNames
    /\ jobs = <<>>
    /\ dbJobs = <<>>
    /\ bookmarks = [b \in BookmarkIds |-> InitialBookmark]
    /\ processingQueue = <<>>
    /\ isProcessing = FALSE
    /\ loops = <<>>
    /\ timers = <<>>
    /\ tempFiles = {}
    /\ runs = <<>>
    /\ lastCall = NoCall
    /\ modelCache = [k \in CacheKeys |-> NoEntry]
    /\ clock = 0

\* ------------------------------------------------------------------------
\* AIService: submission and the queue
\* ------------------------------------------------------------------------
getConfiguredProviders == providers

\* a default that takes the configured provider of lowest priority
getDefaultProviderLastFirst ==
    IF \E i \in 1..Len(priorities) : priorities[i] \in getConfiguredProviders
    THEN priorities[CHOOSE i \in 1..Len(priorities) :
                        /\ priorities[i] \in getConfiguredProviders
                        /\ \A k \in (i + 1)..Len(priorities) : priorities[k] \notin getConfiguredProviders]
    ELSE "none"

getDefaultProvider ==
    IF \E i \in 1..Len(priorities) : priorities[i] \in getConfiguredProviders
    THEN priorities[CHOOSE i \in 1..Len(priorities) :
                        /\ priorities[i] \in getConfiguredProviders
                        /\ \A k \in 1..(i - 1) : priorities[k] \notin getConfiguredProviders]
    ELSE "none"

\* push, then a stable sort by descending priority
RECURSIVE InsertByPriority(_, _, _)
InsertByPriority(q, j, js) ==
    IF q = <<>> THEN <<j>>
    ELSE IF js[Head(q)].priority >= js[j].priority
         THEN <<Head(q)>> \o InsertByPriority(Tail(q), j, js)
         ELSE <<j>> \o q

\* a queue that puts the new job at the front
addToQueueFront(q, j, js) == <<j>> \o q

addToQueue(q, j, js) == InsertByPriority(q, j, js)

\* processQueue's early return: TRUE when the invocation goes on to the loop
processQueueEnters(flag, q) == ~(flag \/ Len(q) = 0)

\* a processQueue that forgets to raise the flag
processQueueFlagNotRaised(flag) == flag

\* the value of isProcessing once processQueue has entered its loop
processQueueFlag(flag) == TRUE

\* a retry test that is off by one
RetryAllowedOffByOne(job) == job.attempts < job.maxAttempts

\* the retry test in the catch block of processJob
RetryAllowed(job) == job.attempts < job.maxAttempts - 1

RemoveAt(s, i) == SubSeq(s, 1, i - 1) \o SubSeq(s, i + 1, Len(s))

\* The loop takes the head of the queue and calls processJob, which runs to
\* its first await (the UPDATE to 'processing').
Dequeue(q, js) == Loop("markProcessing", Head(q), BookmarkUrl(js[Head(q)].bookmarkId))

\* the errors processBookmark throws before it creates a job
BookmarkNotFound == "Bookmark not found"
NoProviderConfigured == "No AI provider configured"

processBookmark(b, providerName) ==
    LET selectedProvider == IF providerName # "none" THEN providerName ELSE getDefaultProvider
        jobId == Len(jobs) + 1
    IN IF b \notin BookmarkIds \/ selectedProvider = "none"
       THEN /\ lastCall' = SubmitThrew(b, providerName,
                                        IF b \notin BookmarkIds THEN BookmarkNotFound
                                        ELSE NoProviderConfigured)
            /\ UNCHANGED <<providers, jobs, dbJobs, bookmarks, processingQueue, isProcessing,
                           loops, timers, tempFiles, runs, modelCache, clock>>
       ELSE /\ Len(jobs) < MaxJobs
            /\ jobs' = Append(jobs, Job(b, selectedProvider))
            /\ dbJobs' = Append(dbJobs, JobRow(selectedProvider))
            /\ timers' = Append(timers, 0)
            /\ lastCall' = Submitted(b, providerName, jobId)
            /\ LET q == addToQueue(processingQueue, jobId, Append(jobs, Job(b, selectedProvider)))
               IN IF ~isProcessing /\ processQueueEnters(isProcessing, q)
                  THEN /\ isProcessing' = processQueueFlag(isProcessing)
                       /\ processingQueue' = Tail(q)
                       /\ loops' = Append(loops, Dequeue(q, Append(jobs, Job(b, selectedProvider))))
                       /\ runs' = [Append(runs, 0) EXCEPT ![Head(q)] = @ + 1]
                  ELSE /\ processingQueue' = q
                       /\ runs' = Append(runs, 0)
                       /\ UNCHANGED <<isProcessing, loops>>
            /\ UNCHANGED <<providers, bookmarks, tempFiles, modelCache, clock>>

\* a configureProvider that registers the provider before validating it
RegisteredUnvalidated(registered, provider, isValid) == registered \cup {provider}

\* the providers map after configureProvider's validateConfig settled
Registered(registered, provider, isValid) ==
    IF isValid THEN registered \cup {provider} ELSE registered

\* configureProvider, at the resumption after validateConfig.  An
\* unsupported provider type throws before any validation; the catch block
\* returns false.
configureProvider(provider, isValid) ==
    /\ IF provider \in ProviderNames
       THEN /\ providers' = Registered(providers, provider, isValid)
            /\ lastCall' = Configured(provider, isValid, isValid)
       ELSE /\ providers' = providers
            /\ lastCall' = Configured(provider, FALSE, FALSE)
    /\ UNCHANGED <<jobs, dbJobs, bookmarks, processingQueue, isProcessing, loops, timers,
                   tempFiles, runs, modelCache, clock>>

\* a retry callback registered with setInterval: it stays pending
RetryTimerRepeats(j) ==
    /\ j \in 1..Len(jobs)
    /\ timers[j] > 0
    /\ jobs' = [jobs EXCEPT ![j].attempts = @ + 1, ![j].status = "pending"]
    /\ processingQueue' = addToQueue(processingQueue, j, jobs)
    /\ lastCall' = NoCall
    /\ UNCHANGED <<providers, dbJobs, bookmarks, isProcessing, loops, timers, tempFiles, runs,
                   modelCache, clock>>

\* The retry callback scheduled by processJob's catch block.  It is due
\* retryDelay after the failure, so (retryDelay > interRequestDelay) not
\* before the loop has ended the delay that follows that processJob call.
RetryTimer(j) ==
    /\ j \in 1..Len(jobs)
    /\ timers[j] > 0
    /\ retryDelay > interRequestDelay
          => ~\E i \in DOMAIN loops : loops[i].pc = "delay" /\ loops[i].job = j
    /\ timers' = [timers EXCEPT ![j] = @ - 1]
    /\ jobs' = [jobs EXCEPT ![j].attempts = @ + 1, ![j].status = "pending"]
    /\ processingQueue' = addToQueue(processingQueue, j, jobs)
    /\ lastCall' = NoCall
    /\ UNCHANGED <<providers, dbJobs, bookmarks, isProcessing, loops, tempFiles, runs,
                   modelCache, clock>>

\* ------------------------------------------------------------------------
\* AIService.processJob, one action per resumption after an await
\* ------------------------------------------------------------------------
SetLoop(i, rec) == loops' = [loops EXCEPT ![i] = rec]

\* a try block that swallows the exception and goes on to mark the job
\* completed
ThrownSwallowed(i, message) ==
    SetLoop(i, Loop("markCompleted", loops[i].job, loops[i].url))

\* a throw inside the try block: control reaches the catch block, which
\* issues the UPDATE that records the failure
Thrown(i, message) ==
    SetLoop(i, [Loop("recordFailure", loops[i].job, loops[i].url) EXCEPT !.err = Some(message)])

MarkedProcessing(i, env) ==
    /\ loops[i].pc = "markProcessing"
    /\ \E ok \in env.queries :
         IF ok
         THEN /\ dbJobs' = [dbJobs EXCEPT ![loops[i].job].status = "processing"]
              /\ SetLoop(i, [loops[i] EXCEPT !.pc = "getBookmark"])
         ELSE /\ Thrown(i, "query failed")
              /\ UNCHANGED dbJobs
    /\ lastCall' = NoCall
    /\ UNCHANGED <<providers, jobs, bookmarks, processingQueue, isProcessing, timers, tempFiles, runs,
                   modelCache, clock>>

\* SELECT of the bookmark; then scrapeContent starts with the first
\* reader-mode request
GotBookmark(i, env) ==
    /\ loops[i].pc = "getBookmark"
    /\ \E ok \in env.queries :
         IF ok
         THEN SetLoop(i, [loops[i] EXCEPT !.pc = "reader", !.variant = 1])
         ELSE Thrown(i, "query failed")
    /\ lastCall' = NoCall
    /\ UNCHANGED <<providers, jobs, dbJobs, bookmarks, processingQueue, isProcessing, timers,
                   tempFiles, runs, modelCache, clock>>

\* scrapeContent returned: look the provider up and call summarize
SummarizeCall(i) ==
    /\ loops[i].pc = "scraped"
    /\ loops[i].job # 0
    /\ IF jobs[loops[i].job].provider \notin providers
       THEN Thrown(i, "Provider not available")
       ELSE SetLoop(i, [loops[i] EXCEPT !.pc = "summarize"])
    /\ lastCall' = NoCall
    /\ UNCHANGED <<providers, jobs, dbJobs, bookmarks, processingQueue, isProcessing, timers,
                   tempFiles, runs, modelCache, clock>>

\* The parameters of the UPDATE bookmarks statement.
UpdatedBookmark(job, summary, content) ==
    [status |-> "ai_analyzed",
     ai_summary |-> TextOrNull(summary.shortSummary),
     ai_long_summary |-> TextOrNull(summary.longSummary),
     ai_tags |-> Some(IF summary.tags = Null THEN <<>> ELSE summary.tags[1]),
     ai_category |-> IF summary.category = Null THEN Null ELSE TextOrNull(summary.category[1]),
     ai_provider |-> Some(job.provider),
     ai_quality_score |-> NumberOrNull(summary.qualityScore),
     ai_quality_issues |-> Some(IF summary.qualityIssues = Null THEN <<>> ELSE summary.qualityIssues[1]),
     extracted_content |-> IF content.textLen = 0 THEN Null ELSE Some(content.textLen),
     extraction_method |-> IF content.extractionMethod = Null THEN Some("unknown")
                           ELSE content.extractionMethod]

\* a processJob that throws on a very low quality score as it does on an error
summaryThrowsOnLowQuality(summary) ==
    \/ summary.error # Null
    \/ summary.qualityScore # Null /\ summary.qualityScore[1] < 3

\* whether processJob throws once summarize has returned: on summary.error;
\* the quality check that follows only logs
summaryThrows(summary) == summary.error # Null

\* summarize returned; on success the UPDATE bookmarks statement is issued.
\* A registered provider has an API key: loadProviders registers a provider
\* only when its key is set and configureProvider only after validateConfig,
\* which answers false without a key.
SummarizeReturned(i) ==
    /\ loops[i].pc = "summarize"
    /\ \E reply \in Replies :
         LET summary == summarize(jobs[loops[i].job].provider, TRUE, reply, loops[i].content.marks)
         IN /\ lastCall' = Summarized(jobs[loops[i].job].provider, reply, summary)
            /\ IF summaryThrows(summary)
               THEN Thrown(i, "AI processing failed")
               ELSE SetLoop(i, [loops[i] EXCEPT !.pc = "updateBookmark", !.summary = summary])
    /\ UNCHANGED <<providers, jobs, dbJobs, bookmarks, processingQueue, isProcessing, timers,
                   tempFiles, runs, modelCache, clock>>

BookmarkUpdated(i, env) ==
    /\ loops[i].pc = "updateBookmark"
    /\ \E ok \in env.queries :
         IF ok
         THEN /\ bookmarks' = [bookmarks EXCEPT ![jobs[loops[i].job].bookmarkId] =
                                  UpdatedBookmark(jobs[loops[i].job], loops[i].summary, loops[i].content)]
              /\ SetLoop(i, Loop("markCompleted", loops[i].job, loops[i].url))
         ELSE /\ Thrown(i, "query failed")
              /\ UNCHANGED bookmarks
    /\ lastCall' = NoCall
    /\ UNCHANGED <<providers, jobs, dbJobs, processingQueue, isProcessing, timers, tempFiles, runs,
                   modelCache, clock>>

\* the UPDATE to 'completed'; processJob returns and the loop starts its delay
MarkedCompleted(i, env) ==
    /\ loops[i].pc = "markCompleted"
    /\ \E ok \in env.queries :
         IF ok
         THEN /\ dbJobs' = [dbJobs EXCEPT ![loops[i].job].status = "completed"]
              /\ SetLoop(i, Loop("delay", loops[i].job, loops[i].url))
         ELSE /\ Thrown(i, "query failed")
              /\ UNCHANGED dbJobs
    /\ lastCall' = NoCall
    /\ UNCHANGED <<providers, jobs, bookmarks, processingQueue, isProcessing, timers, tempFiles, runs,
                   modelCache, clock>>

\* the UPDATE of the catch block.  When it succeeds the retry is scheduled
\* and processJob returns; when it throws the exception leaves processJob
\* and processQueue, whose invocation ends without resetting isProcessing.
FailureRecorded(i, env) ==
    /\ loops[i].pc = "recordFailure"
    /\ \E ok \in env.queries :
         IF ok
         THEN /\ dbJobs' = [dbJobs EXCEPT ![loops[i].job].status = "failed",
                                          ![loops[i].job].error = loops[i].err,
                                          ![loops[i].job].attempts = @ + 1]
              /\ timers' = IF RetryAllowed(jobs[loops[i].job])
                           THEN [timers EXCEPT ![loops[i].job] = @ + 1]
                           ELSE timers
              /\ SetLoop(i, Loop("delay", loops[i].job, loops[i].url))
         ELSE /\ loops' = RemoveAt(loops, i)
              /\ UNCHANGED <<dbJobs, timers>>
    /\ lastCall' = NoCall
    /\ UNCHANGED <<providers, jobs, bookmarks, processingQueue, isProcessing, tempFiles, runs,
                   modelCache, clock>>

\* the inter-request delay elapsed: the while condition is evaluated
DelayElapsed(i) ==
    /\ loops[i].pc = "delay"
    /\ IF Len(processingQueue) > 0
       THEN /\ SetLoop(i, Dequeue(processingQueue, jobs))
            /\ processingQueue' = Tail(processingQueue)
            /\ runs' = [runs EXCEPT ![Head(processingQueue)] = @ + 1]
            /\ UNCHANGED isProcessing
       ELSE /\ isProcessing' = FALSE
            /\ loops' = RemoveAt(loops, i)
            /\ UNCHANGED <<processingQueue, runs>>
    /\ lastCall' = NoCall
    /\ UNCHANGED <<providers, jobs, dbJobs, bookmarks, timers, tempFiles, modelCache, clock>>

\* getJobStatus: the ai_jobs row as stored, or null
getJobStatus(jobId) == IF jobId \in DOMAIN dbJobs THEN Some(dbJobs[jobId]) ELSE Null

\* ------------------------------------------------------------------------
\* ProgressiveWebScraperService.scrapeContent, one action per resumption
\* ------------------------------------------------------------------------
BlankPage == Page(<<>>, <<>>, <<>>, 0, 0, {})
Outcome(kind, page) == [kind |-> kind, page |-> page]

\* What an axios.get for (a variant of) url can produce: a rejection
\* (network error, timeout, status outside 2xx, size limit), a 2xx response
\* that is not a 200 with a body, or a 200 with a document.
FetchOutcomes(url) ==
    IF url.fetchable
    THEN {Outcome("throw", BlankPage), Outcome("empty", BlankPage)}
         \cup {Outcome("page", p) : p \in PagesAt(url)}
    ELSE {Outcome("throw", BlankPage)}

\* unlinkSync of the temporary file inside try/catch: the file is removed,
\* or the unlink throws and the file stays
CleanupResults(files, url) ==
    {files \ {url}} \cup (IF url \in files THEN {files} ELSE {})

Accepted(out) == out.kind = "page" /\ Meaningful(extractContentFromHtml(out.page))

AcceptedContent(out, site) ==
    LET c == extractContentFromHtml(out.page)
    IN Content(c.title, c.textLen, c.marks, site)

\* a reader-mode loop that goes on to the next variant after a success
AfterReaderAttemptNoReturn(accepted, variant) ==
    IF variant < NumReaderVariants THEN "reader" ELSE "mobile"

\* where control goes after one reader-mode attempt: the return inside the
\* for loop, the next variant, or (the list exhausted, tryReaderMode
\* returned null) the mobile request of scrapeContent
AfterReaderAttempt(accepted, variant) ==
    IF accepted THEN "scraped"
    ELSE IF variant < NumReaderVariants THEN "reader" ELSE "mobile"

\* tryReaderMode: the response of the current variant
ReaderResponse(i) ==
    /\ loops[i].pc = "reader"
    /\ \E out \in FetchOutcomes(loops[i].url) :
         LET next == AfterReaderAttempt(Accepted(out), loops[i].variant)
         IN SetLoop(i, [loops[i] EXCEPT
                !.pc = next,
                !.variant = IF next = "reader" THEN @ + 1 ELSE @,
                !.content = IF Accepted(out) THEN AcceptedContent(out, "reader-mode") ELSE @])
    /\ lastCall' = NoCall
    /\ UNCHANGED <<providers, jobs, dbJobs, bookmarks, processingQueue, isProcessing, timers,
                   tempFiles, runs, modelCache, clock>>

\* tryMobileVersion: the response; on failure diskBasedExtraction issues its
\* streaming request
MobileResponse(i) ==
    /\ loops[i].pc = "mobile"
    /\ \E out \in FetchOutcomes(loops[i].url) :
         IF Accepted(out)
         THEN SetLoop(i, [loops[i] EXCEPT !.pc = "scraped",
                                          !.content = AcceptedContent(out, "mobile-agent")])
         ELSE SetLoop(i, [loops[i] EXCEPT !.pc = "diskRequest"])
    /\ lastCall' = NoCall
    /\ UNCHANGED <<providers, jobs, dbJobs, bookmarks, processingQueue, isProcessing, timers,
                   tempFiles, runs, modelCache, clock>>

\* a catch block that cleans up and rethrows instead of falling back
DiskCatchRethrows(i) ==
    /\ tempFiles' \in CleanupResults(tempFiles, loops[i].url)
    /\ Thrown(i, "Scraping failed")

\* the catch block of diskBasedExtraction
DiskCatch(i) ==
    /\ tempFiles' \in CleanupResults(tempFiles, loops[i].url)
    /\ SetLoop(i, [loops[i] EXCEPT !.pc = "scraped", !.content = urlOnlyAnalysis(loops[i].url)])

\* diskBasedExtraction: the streaming request settles (mkdirSync or the
\* request throws, or the response arrives and is piped to the file)
DiskResponse(i) ==
    /\ loops[i].pc = "diskRequest"
    /\ \E ok \in (IF loops[i].url.fetchable THEN BOOLEAN ELSE {FALSE}) :
         IF ok
         THEN /\ tempFiles' = tempFiles \cup {loops[i].url}
              /\ SetLoop(i, [loops[i] EXCEPT !.pc = "diskWrite"])
         ELSE DiskCatch(i)
    /\ lastCall' = NoCall
    /\ UNCHANGED <<providers, jobs, dbJobs, bookmarks, processingQueue, isProcessing, timers, runs,
                   modelCache, clock>>

\* the piped download: the write stream finishes, the write stream errors,
\* or the response stream errors (pipe does not forward that to the write
\* stream, whose 'finish' and 'error' are the only events awaited)
DiskWritten(i, env) ==
    /\ loops[i].pc = "diskWrite"
    /\ \E ev \in env.streamEvents :
         CASE ev = "finish" ->
                /\ SetLoop(i, [loops[i] EXCEPT !.pc = "diskExtract"])
                /\ UNCHANGED tempFiles
           [] ev = "writeError" -> DiskCatch(i)
           [] ev = "sourceError" ->
                /\ SetLoop(i, [loops[i] EXCEPT !.pc = "diskStalled"])
                /\ UNCHANGED tempFiles
    /\ lastCall' = NoCall
    /\ UNCHANGED <<providers, jobs, dbJobs, bookmarks, processingQueue, isProcessing, timers, runs,
                   modelCache, clock>>

\* extractFromDiskFile (its own catch returns urlOnlyAnalysis), then the
\* cleanup of diskBasedExtraction and the return
DiskExtracted(i) ==
    /\ loops[i].pc = "diskExtract"
    /\ \E out \in {Outcome("throw", BlankPage)} \cup {Outcome("page", p) : p \in PagesAt(loops[i].url)} :
         SetLoop(i, [loops[i] EXCEPT !.pc = "scraped",
                                     !.content = IF out.kind = "throw"
                                                 THEN urlOnlyAnalysis(loops[i].url)
                                                 ELSE DiskResult(out.page)])
    /\ tempFiles' \in CleanupResults(tempFiles, loops[i].url)
    /\ lastCall' = NoCall
    /\ UNCHANGED <<providers, jobs, dbJobs, bookmarks, processingQueue, isProcessing, timers, runs,
                   modelCache, clock>>

ScrapeStep(i, env) ==
    \/ ReaderResponse(i)
    \/ MobileResponse(i)
    \/ DiskResponse(i)
    \/ DiskWritten(i, env)
    \/ DiskExtracted(i)

\* ------------------------------------------------------------------------
\* Specifications
\* ------------------------------------------------------------------------
JobStep(i, env) ==
    \/ MarkedProcessing(i, env)
    \/ GotBookmark(i, env)
    \/ SummarizeCall(i)
    \/ SummarizeReturned(i)
    \/ BookmarkUpdated(i, env)
    \/ MarkedCompleted(i, env)
    \/ FailureRecorded(i, env)

\* The environment of a specification: the outcomes a database query may
\* have (TRUE: it succeeds, FALSE: it rejects) and the events a piped
\* download may end with.
Env(queries, streamEvents) == [queries |-> queries, streamEvents |-> streamEvents]
AnyEnv == Env(BOOLEAN, {"finish", "writeError", "sourceError"})
ReliableEnv == Env({TRUE}, {"finish", "writeError"})

Step(env) ==
    \/ \E b \in BookmarkIds, p \in ProviderNames \cup {"none"} : processBookmark(b, p)
    \/ \E j \in 1..MaxJobs : RetryTimer(j)
    \/ \E i \in DOMAIN loops : JobStep(i, env)
    \/ \E i \in DOMAIN loops : ScrapeStep(i, env)
    \/ \E i \in DOMAIN loops : DelayElapsed(i)

Next == Step(AnyEnv)

Spec == Init /\ [][Next]_vars

\* The event loop runs every ready continuation and every due timer; only
\* submissions are at the caller's discretion.
Fairness(env) ==
    /\ WF_vars(\E j \in 1..MaxJobs : RetryTimer(j))
    /\ WF_vars(\E i \in DOMAIN loops : JobStep(i, env))
    /\ WF_vars(\E i \in DOMAIN loops : ScrapeStep(i, env))
    /\ WF_vars(\E i \in DOMAIN loops : DelayElapsed(i))

\* The pipeline with a database whose queries all succeed and downloads
\* that always end.
ReliableNext == Step(ReliableEnv)

ReliableSpec == Init /\ [][ReliableNext]_vars

FairReliableSpec == ReliableSpec /\ Fairness(ReliableEnv)

\* The service with its whole interface in use: besides the submissions of
\* existing bookmarks, callers submit a bookmark id that has no row and
\* configure providers (a supported or an unsupported type; validateConfig
\* answers true or false).
UnknownBookmark == "b0"
UnsupportedProvider == "gemini"

ApiNext ==
    \/ ReliableNext
    \/ \E p \in ProviderNames \cup {"none"} : processBookmark(UnknownBookmark, p)
    \/ \E provider \in ProviderNames \cup {UnsupportedProvider}, isValid \in BOOLEAN :
           configureProvider(provider, isValid)

ApiSpec == Init /\ [][ApiNext]_vars

\* scrapeContent alone, called with any URL
ScrapeInit ==
    /\ providers = {}
    /\ jobs = <<>>
    /\ dbJobs = <<>>
    /\ bookmarks = [b \in BookmarkIds |-> InitialBookmark]
    /\ processingQueue = <<>>
    /\ isProcessing = FALSE
    /\ \E url \in Urls : loops = <<[Loop("reader", 0, url) EXCEPT !.variant = 1]>>
    /\ timers = <<>>
    /\ tempFiles = {}
    /\ runs = <<>>
    /\ lastCall = NoCall
    /\ modelCache = [k \in CacheKeys |-> NoEntry]
    /\ clock = 0

\* assessResponseQuality alone, called with a summary, the extracted text
\* (by the pattern groups it matches) and, unused, the URL.  The summaries
\* are non-empty, as summarize builds them.
QualityGroups == {"refusal", "generic", "insufficient", "blocked"}
ShortSummaries == {Text(12, {}), Text(20, {}), Text(60, {}), AISummaryNotAvailable}
LongSummaries ==
    {Text(len, marks) : len \in {49, 50, 400}, marks \in SUBSET QualityGroups}
        \cup {IApologizeICannotAnalyze, SorryUnableToSummarize}
Confidences == {4, 5, 8}

AssessInit ==
    /\ providers = {}
    /\ jobs = <<>>
    /\ dbJobs = <<>>
    /\ bookmarks = [b \in BookmarkIds |-> InitialBookmark]
    /\ processingQueue = <<>>
    /\ isProcessing = FALSE
    /\ loops = <<>>
    /\ timers = <<>>
    /\ tempFiles = {}
    /\ runs = <<>>
    /\ \E short \in ShortSummaries, long \in LongSummaries, confidence \in Confidences,
          contentMarks \in SUBSET {"insufficient", "blocked"} :
            lastCall = Assessing(SummaryResult(short, long, Some(<<>>), Some(Uncategorized),
                                               "claude", confidence, Null, Null, Null),
                                 contentMarks)
    /\ modelCache = [k \in CacheKeys |-> NoEntry]
    /\ clock = 0

AssessNext ==
    /\ lastCall.op = "assess"
    /\ lastCall' = [lastCall EXCEPT
            !.op = "assessed",
            !.assessment = assessResponseQuality(lastCall.summary, lastCall.contentMarks)]
    /\ UNCHANGED <<providers, jobs, dbJobs, bookmarks, processingQueue, isProcessing, loops,
                   timers, tempFiles, runs, modelCache, clock>>

AssessSpec == AssessInit /\ [][AssessNext]_vars

\* The model-list route alone: requests for any provider with any key, and
\* the passing of time.
CacheInit ==
    /\ providers = {}
    /\ jobs = <<>>
    /\ dbJobs = <<>>
    /\ bookmarks = [b \in BookmarkIds |-> InitialBookmark]
    /\ processingQueue = <<>>
    /\ isProcessing = FALSE
    /\ loops = <<>>
    /\ timers = <<>>
    /\ tempFiles = {}
    /\ runs = <<>>
    /\ lastCall = NoCall
    /\ modelCache = [k \in CacheKeys |-> NoEntry]
    /\ clock = 0

\* router.post('/models/:provider')
PostModels(provider, apiKey) ==
    /\ IF apiKey = NoKey
       THEN /\ lastCall' = ModelsRequested(provider, apiKey, NoEntry)
            /\ UNCHANGED modelCache
       ELSE LET got == CacheGet(modelCache, clock, provider, apiKey)
            IN /\ lastCall' = ModelsRequested(provider, apiKey, got.entry)
               /\ modelCache' =
                     IF got.entry.present \/ provider \notin ProviderNames THEN got.cache
                     ELSE CacheSet(got.cache, clock, provider, apiKey,
                                   fetchAvailableModels(provider, apiKey))
    /\ UNCHANGED <<providers, jobs, dbJobs, bookmarks, processingQueue, isProcessing, loops,
                   timers, tempFiles, runs, clock>>

\* time passes
Tick ==
    /\ clock < MaxClock
    /\ clock' = clock + ClockStep
    /\ lastCall' = NoCall
    /\ UNCHANGED <<providers, jobs, dbJobs, bookmarks, processingQueue, isProcessing, loops,
                   timers, tempFiles, runs, modelCache>>

CacheNext ==
    \/ \E provider \in ProviderNames \cup {UnsupportedProvider}, apiKey \in ApiKeys \cup {NoKey} :
           PostModels(provider, apiKey)
    \/ Tick

CacheSpec == CacheInit /\ [][CacheNext]_vars

ScrapeNext == \E i \in DOMAIN loops : ScrapeStep(i, AnyEnv)

ScrapeSpec == ScrapeInit /\ [][ScrapeNext]_vars

FairScrapeSpec == ScrapeSpec /\ WF_vars(ScrapeNext)

\* ------------------------------------------------------------------------
\* Properties
\* ------------------------------------------------------------------------
JobIds == 1..Len(jobs)

\* processJob is executing for job j (the loop is past the dequeue and has
\* not yet reached its delay)
InFlight(j) == \E i \in DOMAIN loops : loops[i].job = j /\ loops[i].pc # "delay"
InQueue(j) == \E k \in DOMAIN processingQueue : processingQueue[k] = j

\* C1: every accepted job eventually reaches a terminal state: stored status
\* completed, or failed with all MaxAttempts attempts used.
Terminal(j) ==
    /\ j \in JobIds
    /\ \/ dbJobs[j].status = "completed"
       \/ dbJobs[j].status = "failed" /\ runs[j] = MaxAttempts /\ ~InFlight(j)
EveryJobTerminates == \A j \in 1..MaxJobs : (j \in JobIds) ~> Terminal(j)

\* C2: whenever the queue is non-empty a worker loop is running.
QueueNonEmptyImpliesProcessing == processingQueue # <<>> => isProcessing

\* C3: processJob runs at most MaxAttempts times per job; once the third
\* attempt has been recorded as failed the job is not queued, has no retry
\* timer, is never in flight again and its stored status stays failed.
Exhausted(j) == runs[j] = MaxAttempts /\ ~InFlight(j) /\ dbJobs[j].status = "failed"
AttemptsCapped ==
    \A j \in JobIds :
        /\ runs[j] <= MaxAttempts
        /\ Exhausted(j) => ~InQueue(j) /\ timers[j] = 0
MaxAttemptsRespected ==
    /\ []AttemptsCapped
    /\ [][\A j \in JobIds : Exhausted(j) => Exhausted(j)']_vars
ThirdFailureRecorded == \E j \in JobIds : Exhausted(j) /\ dbJobs[j].attempts = MaxAttempts

\* C4: at most one worker loop is active and at most one job is in flight.
AtMostOneJobInFlight ==
    /\ Len(loops) <= 1
    /\ Cardinality({j \in JobIds : InFlight(j)}) <= 1
    /\ \A j, k \in JobIds :
         InFlight(j) /\ InFlight(k) /\ jobs[j].bookmarkId = jobs[k].bookmarkId => j = k
SubmittedWhileProcessing ==
    /\ Len(jobs) >= 2
    /\ Len(loops) = 1 /\ loops[1].pc # "delay"
    /\ processingQueue # <<>> /\ ~InQueue(loops[1].job)

\* C5: no exception escapes processJob: whenever isProcessing is set there
\* is a worker loop that will reset it.
NoExceptionEscapes == isProcessing => loops # <<>>

\* C6: a written bookmark has all six grouped fields set, and unwritten
\* bookmarks have none of them.
GroupFields(row) ==
    {row.ai_summary, row.ai_long_summary, row.ai_tags, row.ai_category, row.ai_provider,
     row.ai_quality_score}
WholeGroupWritten ==
    \A b \in BookmarkIds :
        IF bookmarks[b].status = "ai_analyzed"
        THEN Null \notin GroupFields(bookmarks[b])
        ELSE GroupFields(bookmarks[b]) = {Null}

\* C7: if a job of a bookmark has ended failed, and no job of that bookmark
\* is completed or in flight, the bookmark is as it was before submission.
EndedFailed(j) ==
    /\ dbJobs[j].status = "failed"
    /\ ~InFlight(j) /\ ~InQueue(j) /\ timers[j] = 0
FailedAttemptsLeaveBookmark ==
    \A b \in BookmarkIds :
        (/\ \E j \in JobIds : jobs[j].bookmarkId = b /\ EndedFailed(j)
         /\ \A j \in JobIds : jobs[j].bookmarkId = b
                => dbJobs[j].status # "completed" /\ ~InFlight(j))
        => bookmarks[b] = InitialBookmark

\* C8: the stored job status only changes along pending -> processing,
\* processing -> completed, processing -> failed and failed -> pending.
AllowedTransitions ==
    {<<"pending", "processing">>, <<"processing", "completed">>,
     <<"processing", "failed">>, <<"failed", "pending">>}
StatusFollowsStateMachine ==
    [][\A j \in JobIds :
         dbJobs'[j].status # dbJobs[j].status
            => <<dbJobs[j].status, dbJobs'[j].status>> \in AllowedTransitions]_vars

\* C9: scrapeContent always returns a result.
ScrapeTerminates == <>(\A i \in DOMAIN loops : loops[i].pc = "scraped")

\* C10: every result of scrapeContent has a non-empty title and a non-empty
\* text.
ResultNonEmpty ==
    \A i \in DOMAIN loops :
        loops[i].pc = "scraped" => loops[i].content.title # <<>> /\ loops[i].content.textLen > 0

\* C11: the tiers are attempted in the order reader-mode (variants in list
\* order), mobile-agent, disk-streamed, URL-only, each attempt following the
\* failure of the one before; once an attempt has produced a result the
\* scraper has returned and issues no further request.
ScrapePcs == {"reader", "mobile", "diskRequest", "diskWrite", "diskExtract", "diskStalled"}
TierRank(l) ==
    CASE l.pc = "reader" -> l.variant
      [] l.pc = "mobile" -> NumReaderVariants + 1
      [] l.pc = "diskRequest" -> NumReaderVariants + 2
      [] l.pc = "diskWrite" -> NumReaderVariants + 3
      [] l.pc \in {"diskExtract", "diskStalled"} -> NumReaderVariants + 4
      [] OTHER -> NumReaderVariants + 5
ResultTiers(pc) ==
    CASE pc = "reader" -> {"reader-mode"}
      [] pc = "mobile" -> {"mobile-agent"}
      [] pc \in {"diskRequest", "diskWrite"} -> {"url-only"}
      [] pc = "diskExtract" -> {"disk-streamed", "url-only"}
      [] OTHER -> {}
TiersInOrder ==
    /\ [](\A i \in DOMAIN loops : loops[i].pc \in ScrapePcs => loops[i].content = NoContent)
    /\ [][\A i \in DOMAIN loops :
            /\ loops[i].pc \in ScrapePcs /\ loops'[i] # loops[i]
                  => \/ /\ loops'[i].pc \in ScrapePcs
                        /\ TierRank(loops'[i]) = TierRank(loops[i]) + 1
                     \/ /\ loops'[i].pc = "scraped"
                        /\ loops'[i].content.site \in ResultTiers(loops[i].pc)
            /\ loops[i].pc = "scraped" /\ loops[i].job = 0 => loops'[i] = loops[i]]_vars
ReaderVariantShortCircuits ==
    \E i \in DOMAIN loops :
        /\ loops[i].pc = "scraped" /\ loops[i].content.site = "reader-mode"
        /\ loops[i].variant > 1 /\ loops[i].variant < NumReaderVariants

\* C12: once the disk-streamed tier has returned, its temporary file does
\* not exist.
TempFileRemoved ==
    \A i \in DOMAIN loops : loops[i].pc = "scraped" => loops[i].url \notin tempFiles

\* C20: a result of a network tier is returned only with a non-empty title
\* and a text longer than minContentLength.
NetworkTiers == {"reader-mode", "mobile-agent", "disk-streamed"}
NetworkResultMeetsThreshold ==
    \A i \in DOMAIN loops :
        loops[i].pc = "scraped" /\ loops[i].content.site \in NetworkTiers
            => loops[i].content.title # <<>> /\ loops[i].content.textLen > minContentLength

\* C14: a rejected submission (unknown bookmark, or no provider named and
\* none configured) creates no job, enqueues nothing and leaves the queue,
\* the worker and everything else as they were; an accepted submission
\* without a provider name gets claude if it is configured, else openai.
RejectedSubmissionChangesNothing ==
    [][lastCall'.op = "processBookmark" =>
         LET c == lastCall'
             rejected == c.error # ""
         IN /\ c.bookmarkId \notin BookmarkIds => c.error = BookmarkNotFound
            /\ c.bookmarkId \in BookmarkIds /\ c.provider = "none" /\ providers = {}
                  => c.error = NoProviderConfigured
            /\ rejected
                  => UNCHANGED <<providers, jobs, dbJobs, bookmarks, processingQueue,
                                 isProcessing, loops, timers, tempFiles, runs,
                                 modelCache, clock>>
            /\ ~rejected
                  => /\ Len(jobs') = Len(jobs) + 1
                     /\ c.jobId = Len(jobs')
                     /\ c.provider # "none" => jobs'[c.jobId].provider = c.provider
                     /\ c.provider = "none"
                           => jobs'[c.jobId].provider =
                                 IF "claude" \in providers THEN "claude" ELSE "openai"
                     /\ c.provider = "none" => jobs'[c.jobId].provider \in providers]_vars
RejectedWhileWorking ==
    /\ lastCall.op = "processBookmark" /\ lastCall.error = NoProviderConfigured
    /\ isProcessing /\ processingQueue # <<>>

\* C15: configureProvider returns true exactly when the provider type is
\* supported and its validation succeeded, and then the provider is
\* registered; when it returns false the registered providers are unchanged.
ProviderActivatedOnlyIfValid ==
    [][lastCall'.op = "configureProvider" =>
         LET c == lastCall'
         IN /\ c.returned = (c.provider \in ProviderNames /\ c.isValid)
            /\ c.returned => providers' = providers \cup {c.provider}
            /\ ~c.returned => providers' = providers]_vars
FailedReconfigurationKeepsProvider ==
    /\ lastCall.op = "configureProvider" /\ ~lastCall.returned
    /\ lastCall.provider \in providers /\ providers # ProviderNames

\* C13: a job never fails because of extraction; when every network tier
\* fails the provider is called with the non-empty URL-only text, and once
\* the provider has returned a summary without error the bookmark is written
\* and the job is marked completed.
ProcessingErrors == {Some("Provider not available"), Some("AI processing failed")}
SummarizeErrorsFailAttempt ==
    /\ [](\A name \in ProviderNames, reply \in Replies :
            LET r == summarize(name, FALSE, reply, {})
            IN r.error = Some(ApiKeyNotConfigured) /\ r.confidence = 0 /\ r.provider = name)
    /\ [](lastCall.op = "summarize" /\ lastCall.reply.kind # "ok"
            => lastCall.summary.error = Some(lastCall.reply.kind) /\ lastCall.summary.confidence = 0)
    /\ [][lastCall'.op = "summarize" /\ lastCall'.summary.error # Null
            => /\ bookmarks' = bookmarks
               /\ \E i \in DOMAIN loops' :
                     /\ loops[i].pc = "summarize" /\ loops'[i].pc = "recordFailure"
                     /\ loops'[i].err = Some("AI processing failed")]_vars
    /\ [][\A i \in DOMAIN loops :
            loops[i].pc = "recordFailure"
                => /\ bookmarks' = bookmarks
                   /\ dbJobs'[loops[i].job].status \in {dbJobs[loops[i].job].status, "failed"}]_vars
BackendErrorFailedAttempt ==
    /\ lastCall.op = "summarize" /\ lastCall.reply = ReplyHttpError
    /\ \E i \in DOMAIN loops : loops[i].pc = "recordFailure"
    /\ \A b \in BookmarkIds : bookmarks[b] = InitialBookmark

\* C17: the score is max(0, 1.0 - the penalties of the triggered checks),
\* refusal 0.8, generic placeholder 0.4, scaffolding 0.6, short short
\* summary 0.2, short long summary 0.2, confidence below 0.5 0.3, block 0.7,
\* each at most once, and lies in [0, 1] (scores in tenths).
IssueTypes(a) == {a.issues[n] : n \in 1..Len(a.issues)}
Penalty(condition, tenths) == IF condition THEN tenths ELSE 0
ScoreIsOneMinusPenalties ==
    lastCall.op = "assessed" =>
        LET r == lastCall.summary
            combined == r.shortSummary.marks \cup r.longSummary.marks
            content == lastCall.contentMarks
            penalties ==
                Penalty("refusal" \in combined, 8)
                + Penalty("generic" \in combined, 4)
                + Penalty("insufficient" \in combined \cup content, 6)
                + Penalty(r.shortSummary.len < 20, 2)
                + Penalty(r.longSummary.len < 50, 2)
                + Penalty(r.confidence < 5, 3)
                + Penalty("blocked" \in combined \cup content, 7)
            score == lastCall.assessment.qualityScore
        IN /\ score = (IF penalties >= 10 THEN 0 ELSE 10 - penalties)
           /\ score >= 0 /\ score <= 10
           /\ lastCall.assessment.confidence = score
SeveralChecksDeducted ==
    /\ lastCall.op = "assessed"
    /\ lastCall.assessment.qualityScore = 1
    /\ Len(lastCall.assessment.issues) = 3

\* C18: suggestedAction follows the first matching rule: score < 0.3,
\* a refusal or block issue, a scaffolding issue, score < 0.6, else accept;
\* a score of exactly 0.3 is not mark_as_failed.
ActionByFirstMatchingRule ==
    lastCall.op = "assessed" =>
        LET a == lastCall.assessment
            types == IssueTypes(a)
        IN /\ a.suggestedAction =
                  (CASE a.qualityScore < 3 -> "mark_as_failed"
                     [] a.qualityScore >= 3 /\ types \cap {"error_acknowledgment", "content_blocked"} # {}
                          -> "retry_different_scraping"
                     [] a.qualityScore >= 3 /\ types \cap {"error_acknowledgment", "content_blocked"} = {}
                            /\ "insufficient_content" \in types
                          -> "retry_different_scraping"
                     [] a.qualityScore >= 3 /\ a.qualityScore < 6
                            /\ types \cap {"error_acknowledgment", "content_blocked",
                                            "insufficient_content"} = {}
                          -> "use_metadata_only"
                     [] OTHER -> "accept")
           /\ a.qualityScore = 3 => a.suggestedAction # "mark_as_failed"
ScoreExactlyThreeTenths ==
    /\ lastCall.op = "assessed"
    /\ lastCall.assessment.qualityScore = 3
    /\ lastCall.assessment.suggestedAction = "use_metadata_only"

\* C19: a summary in refusal or apology language, in particular the long
\* summary "I apologize, I cannot analyze this content", gets an
\* error_acknowledgment issue, a score of at most 0.2 and the suggested
\* action retry_different_scraping.
RefusalFlaggedForRetry ==
    lastCall.op = "assessed"
        /\ (\/ lastCall.summary.longSummary = IApologizeICannotAnalyze
            \/ "refusal" \in lastCall.summary.longSummary.marks)
        => /\ "error_acknowledgment" \in IssueTypes(lastCall.assessment)
           /\ lastCall.assessment.qualityScore <= 2
           /\ lastCall.assessment.suggestedAction = "retry_different_scraping"

\* C21: the extraction method stored on the bookmark of a completed job is
\* one of reader-mode, mobile-agent, disk-streamed, url-only.
ExtractionMethods == {"reader-mode", "mobile-agent", "disk-streamed", "url-only"}
ExtractionMethodNamesTier ==
    \A j \in JobIds :
        dbJobs[j].status = "completed"
            => bookmarks[jobs[j].bookmarkId].extraction_method \in {Some(m) : m \in ExtractionMethods}

\* C22: whenever summarize returns without error the job goes on to write
\* the bookmark, whatever the quality score, issues or suggested action, and
\* then completes; no failure is recorded and no retry timer is set.
LowQualityIsNoError ==
    /\ [][lastCall'.op = "summarize" /\ lastCall'.summary.error = Null
            => /\ \E i \in DOMAIN loops \cap DOMAIN loops' :
                     /\ loops[i].pc = "summarize" /\ loops'[i].pc = "updateBookmark"
                     /\ loops'[i].summary = lastCall'.summary
               /\ timers' = timers /\ dbJobs' = dbJobs /\ processingQueue' = processingQueue]_vars
    /\ [][\A i \in DOMAIN loops \cap DOMAIN loops' : loops'[i] # loops[i] =>
            /\ loops[i].pc = "updateBookmark"
                  => /\ loops'[i].pc = "markCompleted"
                     /\ bookmarks'[jobs[loops[i].job].bookmarkId]
                            = UpdatedBookmark(jobs[loops[i].job], loops[i].summary, loops[i].content)
                     /\ timers' = timers
            /\ loops[i].pc = "markCompleted"
                  => /\ dbJobs'[loops[i].job].status = "completed"
                     /\ timers' = timers /\ processingQueue' = processingQueue]_vars
FlooredScoreCompleted ==
    \E j \in JobIds :
        /\ dbJobs[j].status = "completed" /\ runs[j] = 1 /\ timers[j] = 0 /\ ~InQueue(j)
        /\ bookmarks[jobs[j].bookmarkId].ai_provider = Some("claude")
        /\ bookmarks[jobs[j].bookmarkId].ai_quality_issues
               = Some(<<"error_acknowledgment", "incomplete_analysis">>)

\* C23: within one attempt the steps occur in the order: job marked
\* processing, extraction, summarize, bookmark write, job marked completed
\* (any of them may instead fail the attempt); the bookmark is written only
\* by an attempt whose summarize returned without error, and the stored
\* status becomes completed only in an attempt that has written the bookmark.
NextPcs(pc) ==
    CASE pc = "markProcessing" -> {"getBookmark", "recordFailure"}
      [] pc = "getBookmark" -> {"reader", "recordFailure"}
      [] pc \in ScrapePcs -> ScrapePcs \cup {"scraped"}
      [] pc = "scraped" -> {"summarize", "recordFailure"}
      [] pc = "summarize" -> {"updateBookmark", "recordFailure"}
      [] pc = "updateBookmark" -> {"markCompleted", "recordFailure"}
      [] pc = "markCompleted" -> {"delay", "recordFailure"}
      [] pc = "recordFailure" -> {"delay"}
      [] OTHER -> {"markProcessing"}
AttemptStepsInOrder ==
    /\ [](\A i \in DOMAIN loops :
            /\ loops[i].pc \notin {"markProcessing", "recordFailure", "delay"}
                  => dbJobs[loops[i].job].status = "processing"
            /\ loops[i].pc = "updateBookmark" => loops[i].summary.error = Null
            /\ loops[i].pc = "markCompleted"
                  => /\ bookmarks[jobs[loops[i].job].bookmarkId].status = "ai_analyzed"
                     /\ bookmarks[jobs[loops[i].job].bookmarkId].ai_provider
                            = Some(jobs[loops[i].job].provider))
    /\ [][\A i \in DOMAIN loops \cap DOMAIN loops' :
            loops'[i].pc # loops[i].pc => loops'[i].pc \in NextPcs(loops[i].pc)]_vars
    /\ [][bookmarks' # bookmarks
            => \E i \in DOMAIN loops \cap DOMAIN loops' :
                  /\ loops[i].pc = "updateBookmark" /\ loops'[i].pc = "markCompleted"
                  /\ bookmarks' = [bookmarks EXCEPT ![jobs[loops[i].job].bookmarkId] =
                         UpdatedBookmark(jobs[loops[i].job], loops[i].summary, loops[i].content)]]_vars
    /\ [][\A j \in JobIds :
            dbJobs'[j].status = "completed" /\ dbJobs[j].status # "completed"
                => \E i \in DOMAIN loops : loops[i].job = j /\ loops[i].pc = "markCompleted"]_vars
CompletedAtSecondAttempt ==
    \E j \in JobIds :
        /\ dbJobs[j].status = "completed" /\ runs[j] = 2 /\ dbJobs[j].attempts = 1
        /\ bookmarks[jobs[j].bookmarkId].status = "ai_analyzed"

\* C24: the queue is ordered by descending priority; a job is enqueued
\* behind every queued job of the same or a higher priority (retries
\* included, at the time of their re-enqueue), the order of the queued jobs
\* is never changed otherwise, and the worker takes the head.
SortedByPriority(q, js) ==
    \A k, m \in 1..Len(q) : k < m => js[q[k]].priority >= js[q[m]].priority
Enqueued(q, j, js) ==
    LET k == CHOOSE n \in 1..(Len(q) + 1) :
                 /\ \A m \in 1..(n - 1) : js[q[m]].priority >= js[j].priority
                 /\ \A m \in n..Len(q) : js[q[m]].priority < js[j].priority
    IN SubSeq(q, 1, k - 1) \o <<j>> \o SubSeq(q, k, Len(q))
HeadTaken(q) ==
    /\ q # <<>>
    /\ processingQueue' = Tail(q)
    /\ \E i \in DOMAIN loops' : loops'[i].job = Head(q) /\ loops'[i].pc = "markProcessing"
    /\ runs'[Head(q)] = runs[Head(q)] + 1
QueueIsFifo ==
    /\ [](SortedByPriority(processingQueue, jobs))
    /\ [][processingQueue' # processingQueue
            => \/ \E j \in 1..Len(jobs') : processingQueue' = Enqueued(processingQueue, j, jobs')
               \/ HeadTaken(processingQueue)
               \/ \E j \in 1..Len(jobs') : HeadTaken(Enqueued(processingQueue, j, jobs'))]_vars
    /\ [][\A j \in JobIds : runs'[j] # runs[j]
            => HeadTaken(processingQueue) \/ HeadTaken(Enqueued(processingQueue, Len(jobs'), jobs'))]_vars
RetryProcessedBeforeLaterSubmission ==
    /\ Len(loops) = 1 /\ loops[1].job = 1 /\ loops[1].pc = "markProcessing"
    /\ Len(jobs) = 2 /\ runs[1] = 2 /\ runs[2] = 0
    /\ processingQueue = <<2>>

\* C25: after a job's processing has ended no job's processing starts before
\* the worker's inter-request delay has elapsed: a job starts either in the
\* step in which the worker's delay elapses or when the worker is idle, and
\* the worker becomes idle only at the end of a delay; a worker whose
\* processJob threw starts nothing any more.
Working(pc) == pc \notin {"delay"}
DelayBetweenJobs ==
    /\ [](~isProcessing => loops = <<>>)
    /\ [][\A i \in DOMAIN loops :
            Working(loops[i].pc) /\ (i \notin DOMAIN loops' \/ ~Working(loops'[i].pc))
                => \/ i \in DOMAIN loops' /\ loops'[i].pc = "delay" /\ runs' = runs
                   \/ loops' = RemoveAt(loops, i) /\ isProcessing' /\ runs' = runs]_vars
    /\ [][loops # <<>> /\ ~isProcessing'
            => Len(loops) = 1 /\ loops[1].pc = "delay" /\ loops' = <<>>]_vars
    /\ [][isProcessing /\ loops = <<>>
            => isProcessing' /\ loops' = <<>> /\ \A j \in JobIds : runs'[j] = runs[j]]_vars
    /\ [][\A j \in 1..Len(jobs') :
            runs'[j] # (IF j \in JobIds THEN runs[j] ELSE 0)
                => \/ /\ Len(loops) = 1 /\ loops[1].pc = "delay"
                      /\ Len(loops') = 1 /\ loops'[1].job = j /\ loops'[1].pc = "markProcessing"
                   \/ /\ loops = <<>> /\ ~isProcessing
                      /\ Len(loops') = 1 /\ loops'[1].job = j]_vars
SubmittedDuringDelay ==
    /\ lastCall.op = "processBookmark" /\ lastCall.error = ""
    /\ Len(loops) = 1 /\ loops[1].pc = "delay" /\ loops[1].job # lastCall.jobId
    /\ processingQueue = <<lastCall.jobId>> /\ runs[lastCall.jobId] = 0

\* C26: every job is in at most one place: once in the queue, in flight in
\* processJob, or waiting on a retry timer; no attempt is processed twice.
TimesQueued(j) == Cardinality({k \in DOMAIN processingQueue : processingQueue[k] = j})
TimesInFlight(j) == Cardinality({i \in DOMAIN loops : loops[i].job = j /\ loops[i].pc # "delay"})
JobInOnePlace ==
    \A j \in JobIds :
        /\ TimesQueued(j) + TimesInFlight(j) + timers[j] <= 1
        /\ runs[j] <= jobs[j].attempts + 1
        /\ InQueue(j) => runs[j] = jobs[j].attempts
RetryWaitsWhileOtherJobRuns ==
    \E j, k \in JobIds :
        /\ j # k /\ timers[j] = 1 /\ TimesQueued(j) = 0 /\ TimesInFlight(j) = 0
        /\ TimesInFlight(k) = 1 /\ runs[j] = 2

\* C27: the provider of every job that processBookmark creates is registered
\* at that time, and no extraction runs for a job whose provider is not
\* registered.
JobProviderIsRegistered ==
    /\ [][lastCall'.op = "processBookmark" /\ lastCall'.error = ""
            => jobs'[lastCall'.jobId].provider \in providers]_vars
    /\ [](\A i \in DOMAIN loops :
            loops[i].pc \in ScrapePcs => jobs[loops[i].job].provider \in providers)

\* C28: the bookmark UPDATE stores the qualityScore and the qualityIssues of
\* the provider's result, for every score the provider assessed.
QualityPersistedAsAssessed ==
    [][\A i \in DOMAIN loops \cap DOMAIN loops' :
         /\ loops[i].pc = "updateBookmark" /\ loops'[i].pc = "markCompleted"
         /\ loops[i].summary.qualityScore # Null
         => /\ bookmarks'[jobs[loops[i].job].bookmarkId].ai_quality_score
                   = loops[i].summary.qualityScore
            /\ bookmarks'[jobs[loops[i].job].bookmarkId].ai_quality_issues
                   = loops[i].summary.qualityIssues]_vars

\* C29: a job that getJobStatus reports as completed carries no error.
CompletedJobHasNoError ==
    \A j \in JobIds :
        getJobStatus(j)[1].status = "completed" => getJobStatus(j)[1].error = Null

\* C30: modelCache.get(provider, apiKey) returns only an entry that set
\* stored for the same provider and the same apiKey, at most CACHE_DURATION
\* old.
CacheIsolatesApiKeys ==
    lastCall.op = "models" /\ lastCall.entry.present
        => /\ lastCall.entry.storedFor = <<lastCall.provider, lastCall.apiKey>>
           /\ clock - lastCall.entry.timestamp <= CACHE_DURATION

====
